---------------------------- MODULE Spec2Model ----------------------------
(***************************************************************************)
(* Model of the kernel-planckster core: the result/error envelope          *)
(* (lib/core/sdk/dto.py), the SQLAlchemy repositories that return it       *)
(* (lib/infrastructure/repository/sqla) and the Logical File Name value    *)
(* object (lib/core/entity/models.py).                                     *)
(*                                                                         *)
(* Python's Optional values are modelled as sequences of length 0 (None)   *)
(* or 1 (a value), so that an absent and a present field always compare.   *)
(* Python strings are TLA+ strings where only concatenation is needed, and *)
(* sequences of one-character strings where the code inspects characters.  *)
(***************************************************************************)
EXTENDS Integers, Sequences, FiniteSets, TLC

VARIABLES
    store,      \* the rows the persistence layer holds
    call,       \* the last invocation: operation name and arguments
    result,     \* what that invocation returned or raised
    queries,    \* the persistence lookups that invocation performed, in order
    session,    \* the session each repository object holds
    first,      \* history: the first invocation, its result, and what followed
    lfn_pc,     \* position of the LFN scenario
    lfn_in,     \* the arguments LFN(...) is constructed from
    lfn,        \* the constructed LFN
    lfn_again,  \* the relative_path validator applied to lfn.relative_path
    lfn_json,   \* lfn.to_json()
    lfn_back    \* LFN.from_json(lfn_json)

vars == <<store, call, result, queries, session, first, lfn_pc, lfn_in, lfn, lfn_again, lfn_json, lfn_back>>
repo_vars == <<store, call, result, queries, session, first>>
lfn_vars == <<lfn_pc, lfn_in, lfn, lfn_again, lfn_json, lfn_back>>

-----------------------------------------------------------------------------
(* Bounds of the model *)

MaxCitations == 2
MaxPieces == 3

-----------------------------------------------------------------------------
(* Optional values *)

None == <<>>
Some(x) == <<x>>
IsNone(o) == Len(o) = 0
Present(o) == Len(o) = 1
Val(o) == o[1]

-----------------------------------------------------------------------------
(* Entity classes. Every entity is a pydantic model class; the class of a   *)
(* class is its metaclass, which for every pydantic model is ModelMetaclass. *)

EntityClass(n) == [name |-> n, metaclass |-> "ModelMetaclass"]
SourceData == EntityClass("SourceData")
ResearchContext == EntityClass("ResearchContext")
Conversation == EntityClass("Conversation")
MessageResponse == EntityClass("MessageResponse")

-----------------------------------------------------------------------------
(* str(int) *)

Digit(d) == CASE d = 0 -> "0" [] d = 1 -> "1" [] d = 2 -> "2" [] d = 3 -> "3"
              [] d = 4 -> "4" [] d = 5 -> "5" [] d = 6 -> "6" [] d = 7 -> "7"
              [] d = 8 -> "8" [] d = 9 -> "9"

RECURSIVE NatToStr(_)
NatToStr(n) == IF n < 10 THEN Digit(n) ELSE NatToStr(n \div 10) \o Digit(n % 10)

IntToStr(n) == IF n < 0 THEN "-" \o NatToStr(0 - n) ELSE NatToStr(n)

(* str.lower(), str.upper(), str.capitalize() on the attribute spellings the *)
(* model passes; str.title().strip() on the missing_data names it passes.    *)

AttributeSpellings == {"id", "ID", "Id", "sid", "Sid", "SID", "name", "Name", "NAME"}

StrLower(s) == CASE s \in {"id", "ID", "Id"} -> "id"
                 [] s \in {"sid", "Sid", "SID"} -> "sid"
                 [] s \in {"name", "Name", "NAME"} -> "name"

StrUpper(s) == CASE s \in {"id", "ID", "Id"} -> "ID"
                 [] s \in {"sid", "Sid", "SID"} -> "SID"
                 [] s \in {"name", "Name", "NAME"} -> "NAME"

StrCapitalize(s) == CASE s \in {"id", "ID", "Id"} -> "Id"
                      [] s \in {"sid", "Sid", "SID"} -> "Sid"
                      [] s \in {"name", "Name", "NAME"} -> "Name"

MissingDataNames == {"lfn", "source data"}

StrTitleStrip(s) == CASE s = "lfn" -> "Lfn"
                      [] s = "source data" -> "Source Data"

-----------------------------------------------------------------------------
(* Outcomes of a call: a DTO that is returned, or an exception that is raised *)

Raise(exc) == [kind |-> "raise", exc |-> exc]

\* BaseDTO with `data` defaulting to an empty list instead of None
BaseDTO_ListDefault(DTO, status, errorCode, errorMessage, errorName, errorType, data) ==
    [kind |-> "dto", dto |-> DTO, status |-> status, errorCode |-> errorCode,
     errorMessage |-> errorMessage, errorName |-> errorName,
     errorType |-> errorType, data |-> IF IsNone(data) THEN Some(<<>>) ELSE data]

\* BaseDTO(status=..., errorCode=..., ...): the fields not passed keep their
\* default None
BaseDTO(DTO, status, errorCode, errorMessage, errorName, errorType, data) ==
    [kind |-> "dto", dto |-> DTO, status |-> status, errorCode |-> errorCode,
     errorMessage |-> errorMessage, errorName |-> errorName,
     errorType |-> errorType, data |-> data]


-----------------------------------------------------------------------------
(* generate_error_dto_and_message, lib/core/sdk/dto.py *)

\* errorCode not in range(-3, 0) raises
ValidErrorCode(errorCode) == errorCode \in -3..-1

\* the allow-list check left out
AttributeAllowed_NoAllowList(attribute) == TRUE

\* attribute.lower() not in ["id", "sid"] raises
AttributeAllowed(attribute) == StrLower(attribute) \in {"id", "sid"}

\* entity_name = entity.__class__.__name__ : entity is a class, so its
\* __class__ is the metaclass
EntityName(entity) == entity.metaclass

\* a non-empty string is truthy
Truthy(s) == s # ""

\* the condition without its `or "sid"`
UpperBranchTaken_NoOr(attribute, is_same) == Present(attribute) /\ is_same

\* `attribute is not None and attribute.lower() is "id" or "sid"` parses as
\* `(... and ...) or "sid"`; the identity test `is` may go either way
\* (is_same is what the implementation answers)
UpperBranchTaken(attribute, is_same) ==
    (Present(attribute) /\ is_same) \/ Truthy("sid")

\* the locals message, name and type after the three `if errorCode == ...`
\* blocks; a local no block assigned stays unbound (None). The -3 block
\* assigns errorName and errorType instead of name and type.
ErrorLocals(errorCode, attribute_name, attribute_value, missing_data) ==
    CASE errorCode = -1 ->
           [message |-> Some(StrUpper(attribute_name) \o " cannot be None"),
            name |-> Some(StrUpper(attribute_name) \o " not provided"),
            type |-> Some(StrCapitalize(attribute_name) \o "NotProvided")]
      [] errorCode = -2 ->
           [message |-> Some("with " \o attribute_name \o " " \o Val(attribute_value)
                             \o " not found in the database"),
            name |-> Some("not found"),
            type |-> Some("NotFound")]
      [] errorCode = -3 ->
           [message |-> Some("with " \o attribute_name \o " "
                             \o (IF Present(attribute_value) THEN Val(attribute_value)
                                                             ELSE "None")
                             \o " has no " \o Val(missing_data)),
            name |-> None,
            type |-> None,
            errorName |-> Some("has no " \o Val(missing_data)),
            errorType |-> Some("HasNo" \o StrTitleStrip(Val(missing_data)))]

\* the context checks inside the `if errorCode == ...` blocks (attribute is
\* known not to be None when they are reached)
ContextComplete(errorCode, attribute_value, missing_data) ==
    CASE errorCode = -1 -> TRUE
      [] errorCode = -2 -> Present(attribute_value)
      [] errorCode = -3 -> Present(missing_data)

generate_error_dto_and_message(DTO, entity, errorCode, attribute, attribute_value, missing_data, is_same) ==
    IF ~ValidErrorCode(errorCode) THEN Raise("ValueError")
    ELSE IF Present(attribute) /\ ~AttributeAllowed(Val(attribute)) THEN Raise("ValueError")
    ELSE IF IsNone(attribute) THEN
        \* line 75 runs because line 74 is always true: None.upper()
        IF UpperBranchTaken(attribute, is_same) THEN Raise("AttributeError")
        ELSE Raise("ValueError")
    ELSE
        LET entity_name == EntityName(entity)
            attribute_name == IF UpperBranchTaken(attribute, is_same)
                              THEN StrUpper(Val(attribute))
                              ELSE StrCapitalize(StrLower(Val(attribute)))
            value == IF Present(attribute_value)
                     THEN Some(IntToStr(Val(attribute_value)))
                     ELSE None
        IN  IF ~ContextComplete(errorCode, value, missing_data) THEN Raise("ValueError")
            ELSE
              LET loc == ErrorLocals(errorCode, attribute_name, value, missing_data)
              IN  IF IsNone(loc.message) \/ IsNone(loc.name) \/ IsNone(loc.type)
                  THEN Raise("UnboundLocalError")
                  ELSE BaseDTO(DTO, FALSE, Some(errorCode),
                               Some(entity_name \o " " \o Val(loc.message)),
                               Some(entity_name \o " " \o Val(loc.name)),
                               Some(entity_name \o Val(loc.type)),
                               None)

-----------------------------------------------------------------------------
(* The persistence layer as the repositories see it *)

ResearchContextIds == {1}
ConversationLists == {<<>>, <<11, 12>>}
MessageIds == {1}
SourceDataIds == {1, 2}

RECURSIVE SeqsUpTo(_, _)
SeqsUpTo(S, n) ==
    IF n = 0 THEN {<<>>}
    ELSE LET shorter == SeqsUpTo(S, n - 1)
         IN  shorter \cup {Append(q, x) : q \in {r \in shorter : Len(r) = n - 1}, x \in S}

CitationLists == SeqsUpTo(SourceDataIds, MaxCitations)

\* a table maps a primary key to None (no row) or to the row with that key
ResearchContextTables ==
    {[i \in ResearchContextIds |->
         IF i \in present THEN Some([id |-> i, conversations |-> conv[i]]) ELSE None] :
       present \in SUBSET ResearchContextIds, conv \in [ResearchContextIds -> ConversationLists]}

MessageResponseTables ==
    {[i \in MessageIds |->
         IF i \in present THEN Some([id |-> i, citations |-> cit[i]]) ELSE None] :
       present \in SUBSET MessageIds, cit \in [MessageIds -> CitationLists]}

SourceDataTables ==
    {[i \in SourceDataIds |-> IF i \in present THEN Some([id |-> i]) ELSE None] :
       present \in SUBSET SourceDataIds}

Stores ==
    [research_context : ResearchContextTables,
     message_response : MessageResponseTables,
     source_data : SourceDataTables]

\* session.get(Model, key) and session.query(Model).filter_by(id=key).first():
\* the row with that primary key, or None (also for the key None)
Lookup(st, table, key) ==
    IF Present(key) /\ Val(key) \in DOMAIN st[table] THEN st[table][Val(key)] ELSE None

Query(table, key) == [table |-> table, key |-> key]

\* what an operation hands back: its outcome, the lookups it made and the
\* session writes (add, delete, commit) it made; no operation makes a write
Done(outcome, qs) == [outcome |-> outcome, queries |-> qs, writes |-> <<>>]

\* f"{x}" of an Optional[int]
FormatId(key) == IF Present(key) THEN IntToStr(Val(key)) ELSE "None"

-----------------------------------------------------------------------------
(* SQLAReseachContextRepository *)

convert_sqla_research_context_to_core_research_context(row) ==
    [entity |-> "ResearchContext", id |-> row.id]

convert_sqla_conversation_to_core_conversation(conversation_id) ==
    [entity |-> "Conversation", id |-> conversation_id]

\* get_research_context that adds and commits the row it did not find
get_research_context_GetOrCreate(st, research_context_id) ==
    LET sqla_research_context == Lookup(st, "research_context", research_context_id)
        qs == <<Query("research_context", research_context_id)>>
        created == [id |-> Val(research_context_id), conversations |-> <<>>]
    IN  IF IsNone(sqla_research_context) /\ Present(research_context_id)
           /\ Val(research_context_id) \in ResearchContextIds
        THEN [outcome |-> BaseDTO("GetResearchContextDTO", TRUE, None, None, None, None,
                          Some(convert_sqla_research_context_to_core_research_context(created))),
              queries |-> qs,
              writes |-> <<[table |-> "research_context", key |-> Val(research_context_id),
                            row |-> Some(created)]>>]
        ELSE IF IsNone(sqla_research_context)
        THEN Done(BaseDTO("GetResearchContextDTO", FALSE, Some(-1),
                          Some("Research context " \o FormatId(research_context_id) \o " not found."),
                          Some("ResearchContextNotFound"),
                          Some("ResearchContextNotFound"),
                          None), qs)
        ELSE Done(BaseDTO("GetResearchContextDTO", TRUE, None, None, None, None,
                          Some(convert_sqla_research_context_to_core_research_context(
                                   Val(sqla_research_context)))), qs)

get_research_context(st, research_context_id) ==
    LET sqla_research_context == Lookup(st, "research_context", research_context_id)
        qs == <<Query("research_context", research_context_id)>>
    IN  IF IsNone(sqla_research_context)
        THEN Done(BaseDTO("GetResearchContextDTO", FALSE, Some(-1),
                          Some("Research context " \o FormatId(research_context_id) \o " not found."),
                          Some("ResearchContextNotFound"),
                          Some("ResearchContextNotFound"),
                          None), qs)
        ELSE Done(BaseDTO("GetResearchContextDTO", TRUE, None, None, None, None,
                          Some(convert_sqla_research_context_to_core_research_context(
                                   Val(sqla_research_context)))), qs)

list_conversations(st, research_context_id) ==
    LET sqla_research_context == Lookup(st, "research_context", research_context_id)
        qs == <<Query("research_context", research_context_id)>>
    IN  IF IsNone(sqla_research_context)
        THEN Done(BaseDTO("ListResearchContextConversationsDTO", FALSE, Some(-1),
                          Some("Research context " \o FormatId(research_context_id) \o " not found."),
                          Some("ResearchContextNotFound"),
                          Some("ResearchContextNotFound"),
                          None), qs)
        ELSE LET sqla_conversations == Val(sqla_research_context).conversations
                 core_conversations ==
                     [k \in 1..Len(sqla_conversations) |->
                         convert_sqla_conversation_to_core_conversation(sqla_conversations[k])]
             IN  Done(BaseDTO("ListResearchContextConversationsDTO", TRUE, None, None, None, None,
                              Some(core_conversations)), qs)

-----------------------------------------------------------------------------
(* SQLAMessageRepository *)

\* the fields of SourceData with no default, its own and the inherited ones
SourceDataRequired ==
    {"created_at", "updated_at", "deleted", "deleted_at", "id", "name", "type", "lfn", "status"}

\* the keyword arguments list_message_sources passes to SourceData(...)
SourceDataKwargs ==
    {"created_at", "updated_at", "deleted", "deleted_at", "id", "name", "type", "lfn", "protocol"}

\* pydantic's BaseModel.__init__: a required field that is not passed raises
\* ValidationError; the entity is returned otherwise
NewSourceData(kwargs, row) ==
    IF SourceDataRequired \subseteq kwargs
    THEN [kind |-> "entity", entity |-> "SourceData", id |-> row.id]
    ELSE Raise("ValidationError")

\* the `for citation in sqla_message.citations` loop from citation k on, and
\* the success return after it
RECURSIVE ResolveCitations(_, _, _, _, _, _)
ResolveCitations(st, citations, k, sources_list, qs, is_same) ==
    IF k > Len(citations)
    THEN Done(BaseDTO("ListMessageSourcesDTO", TRUE, None, None, None, None,
                      Some(sources_list)), qs)
    ELSE LET source_data_id == Some(citations[k])
             sqla_source_data == Lookup(st, "source_data", source_data_id)
             qs1 == Append(qs, Query("source_data", source_data_id))
         IN  IF IsNone(sqla_source_data)
             THEN Done(generate_error_dto_and_message(
                           "ListMessageSourcesDTO", SourceData, -2, Some("ID"),
                           source_data_id, None, is_same), qs1)
             ELSE LET source_core == NewSourceData(SourceDataKwargs, Val(sqla_source_data))
                  IN  IF source_core.kind = "raise"
                      THEN Done(source_core, qs1)
                      ELSE ResolveCitations(st, citations, k + 1,
                                            Append(sources_list, source_core), qs1, is_same)

\* list_message_sources with the message query moved before the None check
list_message_sources_QueryFirst(st, message_id, is_same) ==
    LET sqla_message == Lookup(st, "message_response", message_id)
        qs == <<Query("message_response", message_id)>>
    IN  IF IsNone(message_id) \/ IsNone(sqla_message)
        THEN Done(generate_error_dto_and_message(
                      "ListMessageSourcesDTO", MessageResponse,
                      IF IsNone(message_id) THEN -1 ELSE -2, Some("ID"),
                      message_id, None, is_same), qs)
        ELSE ResolveCitations(st, Val(sqla_message).citations, 1, <<>>, qs, is_same)

list_message_sources(st, message_id, is_same) ==
    IF IsNone(message_id)
    THEN Done(generate_error_dto_and_message(
                  "ListMessageSourcesDTO", MessageResponse, -1, Some("ID"), None, None,
                  is_same),
              <<>>)
    ELSE LET sqla_message == Lookup(st, "message_response", message_id)
             qs == <<Query("message_response", message_id)>>
         IN  IF IsNone(sqla_message)
             THEN Done(generate_error_dto_and_message(
                           "ListMessageSourcesDTO", MessageResponse, -2, Some("ID"),
                           message_id, None, is_same), qs)
             ELSE ResolveCitations(st, Val(sqla_message).citations, 1, <<>>, qs, is_same)

-----------------------------------------------------------------------------
(* Callers: each action is one whole synchronous call *)

RequestedResearchContextIds == {None} \cup {Some(i) : i \in ResearchContextIds \cup {999}}
RequestedMessageIds == {None} \cup {Some(i) : i \in MessageIds \cup {999}}

FactoryDTOs == {"ListMessageSourcesDTO"}
FactoryEntities == {SourceData, ResearchContext}
FactoryCodes == -4..0
FactoryAttributes == {None, Some("ID"), Some("sid"), Some("name")}
FactoryValues == {None, Some(42)}
FactoryMissing == {None, Some("lfn")}

EmptyStore ==
    [research_context |-> [i \in ResearchContextIds |-> None],
     message_response |-> [i \in MessageIds |-> None],
     source_data |-> [i \in SourceDataIds |-> None]]

NoCall == [op |-> "none"]
NoResult == [kind |-> "none"]

LfnIdle ==
    /\ lfn_pc = "idle"
    /\ lfn_in = None
    /\ lfn = None
    /\ lfn_again = None
    /\ lfn_json = None
    /\ lfn_back = None

\* SQLAMessageRepository.__init__ and SQLAReseachContextRepository.__init__:
\* `with session_factory() as session: self.session = session`. The session
\* is acquired and released by the constructor, and the object keeps it.
SessionAfterInit(session_id) ==
    [id |-> session_id, acquired_by |-> "__init__", state |-> "released"]

Repositories ==
    [message_repository |-> SessionAfterInit(1),
     research_context_repository |-> SessionAfterInit(2)]

\* the history is kept only by the specifications that start it
Untracked == [tracking |-> FALSE]
NothingYet == [tracking |-> TRUE, seen |-> FALSE]

\* history: remember the first invocation with its result and the store it
\* ran on; afterwards note whether the invocation just made repeats it and
\* whether a different one came in between
Remember ==
    first' = IF ~first.tracking THEN first
             ELSE IF ~first.seen
                  THEN [tracking |-> TRUE, seen |-> TRUE, call |-> call', result |-> result',
                        store |-> store, repeated |-> FALSE, others |-> FALSE]
                  ELSE IF call' = first.call
                       THEN [first EXCEPT !.repeated = TRUE]
                       ELSE [first EXCEPT !.repeated = FALSE, !.others = TRUE]

\* the rows after the session writes an operation made
RECURSIVE ApplyWrites(_, _)
ApplyWrites(st, writes) ==
    IF Len(writes) = 0 THEN st
    ELSE LET w == Head(writes)
         IN  ApplyWrites([st EXCEPT ![w.table][w.key] = w.row], Tail(writes))

Idle ==
    /\ call = NoCall
    /\ result = NoResult
    /\ queries = <<>>
    /\ session = Repositories

Init ==
    /\ store \in Stores
    /\ Idle
    /\ first = Untracked
    /\ LfnIdle

GetResearchContext ==
    \E research_context_id \in RequestedResearchContextIds :
        LET r == get_research_context(store, research_context_id)
        IN  /\ call' = [op |-> "get_research_context", id |-> research_context_id,
                        session |-> session.research_context_repository]
            /\ result' = r.outcome
            /\ queries' = r.queries
            /\ store' = ApplyWrites(store, r.writes)
            /\ Remember
            /\ UNCHANGED <<session, lfn_vars>>

ListConversations ==
    \E research_context_id \in RequestedResearchContextIds :
        LET r == list_conversations(store, research_context_id)
        IN  /\ call' = [op |-> "list_conversations", id |-> research_context_id,
                        session |-> session.research_context_repository]
            /\ result' = r.outcome
            /\ queries' = r.queries
            /\ store' = ApplyWrites(store, r.writes)
            /\ Remember
            /\ UNCHANGED <<session, lfn_vars>>

ListMessageSources ==
    \E message_id \in RequestedMessageIds, is_same \in BOOLEAN :
        LET r == list_message_sources(store, message_id, is_same)
        IN  /\ call' = [op |-> "list_message_sources", id |-> message_id,
                        session |-> session.message_repository]
            /\ result' = r.outcome
            /\ queries' = r.queries
            /\ store' = ApplyWrites(store, r.writes)
            /\ Remember
            /\ UNCHANGED <<session, lfn_vars>>

GenerateError ==
    \E DTO \in FactoryDTOs, entity \in FactoryEntities, errorCode \in FactoryCodes,
       attribute \in FactoryAttributes, attribute_value \in FactoryValues,
       missing_data \in FactoryMissing, is_same \in BOOLEAN :
        /\ call' = [op |-> "generate_error_dto_and_message", DTO |-> DTO, entity |-> entity,
                    errorCode |-> errorCode, attribute |-> attribute,
                    attribute_value |-> attribute_value, missing_data |-> missing_data]
        /\ result' = generate_error_dto_and_message(DTO, entity, errorCode, attribute,
                                                     attribute_value, missing_data, is_same)
        /\ queries' = <<>>
        /\ Remember
        /\ UNCHANGED <<store, session, lfn_vars>>

Next ==
    \/ GetResearchContext
    \/ ListConversations
    \/ ListMessageSources
    \/ GenerateError

Spec == Init /\ [][Next]_vars

\* the factory called again and again, with the history kept
InitFactory ==
    /\ store = EmptyStore
    /\ Idle
    /\ first = NothingYet
    /\ LfnIdle

NextFactory == GenerateError

SpecFactory == InitFactory /\ [][NextFactory]_vars

\* the repository operations called again and again, with the history kept
InitRepeat ==
    /\ store \in Stores
    /\ Idle
    /\ first = NothingYet
    /\ LfnIdle

NextRepeat ==
    \/ GetResearchContext
    \/ ListConversations
    \/ ListMessageSources

SpecRepeat == InitRepeat /\ [][NextRepeat]_vars

-----------------------------------------------------------------------------
(* Properties of the envelope and of the repository operations *)

IsDTO(r) == r.kind = "dto"
IsRaise(r) == r.kind = "raise"

ErrorFieldsAbsent(r) ==
    IsNone(r.errorCode) /\ IsNone(r.errorMessage) /\ IsNone(r.errorName) /\ IsNone(r.errorType)

ErrorFieldsPresent(r) ==
    Present(r.errorCode) /\ Present(r.errorMessage) /\ Present(r.errorName)
        /\ Present(r.errorType)

IsFactoryCall == call.op = "generate_error_dto_and_message"
IsRepositoryCall == call.op \in {"get_research_context", "list_conversations", "list_message_sources"}

\* C1: every Result returned by generate_error_dto_and_message or by a
\* repository operation is exclusive: status=true comes with data present (an
\* empty list included) and no error field, status=false with data absent and
\* all four error fields present.
C1_EnvelopeExclusivity ==
    ((IsFactoryCall \/ IsRepositoryCall) /\ IsDTO(result)) =>
        /\ result.status => (Present(result.data) /\ ErrorFieldsAbsent(result))
        /\ ~result.status => (IsNone(result.data) /\ ErrorFieldsPresent(result))

\* C1 witness: list_message_sources returned a success Result whose data is
\* the empty list.
C1_Witness ==
    /\ call.op = "list_message_sources"
    /\ IsDTO(result)
    /\ result.status
    /\ Present(result.data)
    /\ Len(Val(result.data)) = 0

\* the context the claims call complete for an error kind
ClaimedContextComplete(c) ==
    /\ Present(c.attribute)
    /\ c.errorCode \in {-2, -3} => Present(c.attribute_value)
    /\ c.errorCode = -3 => Present(c.missing_data)

ClaimedAllowListed(c) == Present(c.attribute) /\ StrLower(Val(c.attribute)) \in {"id", "sid"}

\* C2: for each of the error kinds -1, -2, -3, a call with an allow-listed
\* attribute and the complete context of the kind returns an error Result with
\* status=false, that errorCode, and errorMessage, errorName, errorType set.
C2_EveryKindBuildsAnError ==
    (IsFactoryCall /\ call.errorCode \in -3..-1 /\ ClaimedAllowListed(call)
        /\ ClaimedContextComplete(call)) =>
        /\ IsDTO(result)
        /\ ~result.status
        /\ result.errorCode = Some(call.errorCode)
        /\ ErrorFieldsPresent(result)

\* C3: the errorMessage is "<EntityName> <situation>" with the name of the
\* entity type passed as `entity`, and errorName and errorType start with the
\* same entity name.
C3_MessageNamesTheEntity ==
    (IsFactoryCall /\ IsDTO(result)) =>
        LET loc == ErrorLocals(call.errorCode, StrUpper(Val(call.attribute)),
                               IF Present(call.attribute_value)
                               THEN Some(IntToStr(Val(call.attribute_value))) ELSE None,
                               call.missing_data)
        IN  /\ result.errorMessage = Some(call.entity.name \o " " \o Val(loc.message))
            /\ result.errorName = Some(call.entity.name \o " " \o Val(loc.name))
            /\ result.errorType = Some(call.entity.name \o Val(loc.type))

\* what the claims call a contract violation of the factory
ContractViolation(c) ==
    \/ c.errorCode \notin -3..-1
    \/ Present(c.attribute) /\ StrLower(Val(c.attribute)) \notin {"id", "sid"}
    \/ ~ClaimedContextComplete(c)

\* C4: a contract violation (errorCode outside -3..-1, an attribute that is
\* not id/sid, or incomplete context for the kind) ends in a raised exception
\* and no DTO is constructed.
C4_ContractViolationRaises ==
    (IsFactoryCall /\ ContractViolation(call)) => (IsRaise(result) /\ ~IsDTO(result))

\* C4 witness: the factory was called for kind -1 with the attribute "name",
\* which is not allow-listed, and raised.
C4_Witness ==
    /\ IsFactoryCall
    /\ call.errorCode = -1
    /\ call.attribute = Some("name")
    /\ IsRaise(result)

\* C5: for a research_context_id with no row in the store, get_research_context
\* and list_conversations return status=false, errorCode -2 and errorName
\* "ResearchContext not found".
C5_AbsentResearchContextIsNotFound ==
    (call.op \in {"get_research_context", "list_conversations"}
        /\ IsNone(Lookup(store, "research_context", call.id))) =>
        /\ IsDTO(result)
        /\ ~result.status
        /\ result.errorCode = Some(-2)
        /\ result.errorName = Some("ResearchContext not found")

SomeCitedSourceAbsent(st, message_id) ==
    /\ Present(message_id)
    /\ Present(Lookup(st, "message_response", message_id))
    /\ LET citations == Val(Lookup(st, "message_response", message_id)).citations
       IN  \E k \in 1..Len(citations) : IsNone(Lookup(st, "source_data", Some(citations[k])))

\* C7: for an existing message with a citation whose source data is absent,
\* list_message_sources returns a single error Result with errorCode -2 and
\* data absent, however many earlier citations resolved.
C7_AbsentSourceIsNotFound ==
    (call.op = "list_message_sources" /\ SomeCitedSourceAbsent(store, call.id)) =>
        /\ IsDTO(result)
        /\ ~result.status
        /\ result.errorCode = Some(-2)
        /\ IsNone(result.data)

-----------------------------------------------------------------------------
(* LFN, lib/core/entity/models.py. A path is a sequence of one-character    *)
(* strings.                                                                 *)

marker == <<"s", "d", "a", "m", "a", "r", "k", "e", "r">>

LowerLetters == {"a", "b", "c", "d", "e", "f", "g", "h", "i", "j", "k", "l", "m",
                 "n", "o", "p", "q", "r", "s", "t", "u", "v", "w", "x", "y", "z"}
UpperLetters == {"A", "B", "C", "D", "E", "F", "G", "H", "I", "J", "K", "L", "M",
                 "N", "O", "P", "Q", "R", "S", "T", "U", "V", "W", "X", "Y", "Z"}
Digits == {"0", "1", "2", "3", "4", "5", "6", "7", "8", "9"}

\* the characters re.sub(r"[^a-zA-Z0-9_\./-]", "", v) keeps
Whitelist == LowerLetters \cup UpperLetters \cup Digits \cup {"_", ".", "/", "-"}

\* `sub in v`
Contains(sub, v) ==
    \E i \in 1..(Len(v) - Len(sub) + 1) : SubSeq(v, i, i + Len(sub) - 1) = sub

\* v.count(sub)
Occurrences(sub, v) ==
    Cardinality({i \in 1..(Len(v) - Len(sub) + 1) : SubSeq(v, i, i + Len(sub) - 1) = sub})

Positions(c, v) == {i \in 1..Len(v) : v[i] = c}
Max(S) == CHOOSE x \in S : \A y \in S : y <= x
Min(S) == CHOOSE x \in S : \A y \in S : x <= y

\* os.path.basename(v): what follows the last "/"
Basename(v) ==
    IF Positions("/", v) = {} THEN v ELSE SubSeq(v, Max(Positions("/", v)) + 1, Len(v))

\* re.sub(r"[^a-zA-Z0-9_\./-]", "", v)
IsWhitelisted(c) == c \in Whitelist
StripDisallowed(v) == SelectSeq(v, IsWhitelisted)

\* v.split(".")[-1] and v.split(".")[0]
SplitLast(v) ==
    IF Positions(".", v) = {} THEN v ELSE SubSeq(v, Max(Positions(".", v)) + 1, Len(v))
SplitFirst(v) ==
    IF Positions(".", v) = {} THEN v ELSE SubSeq(v, 1, Min(Positions(".", v)) - 1)

\* f"{uuid.uuid4()}".replace("-", ""): 32 hexadecimal digits
UuidHexLen == 32
HexDigits == Digits \cup {"a", "b", "c", "d", "e", "f"}
Seeds == {[i \in 1..UuidHexLen |-> "a"],
          [i \in 1..UuidHexLen |-> IF i % 2 = 1 THEN "d" ELSE "e"]}

\* the validator without the `marker not in v` test: it always rewrites
relative_path_validator_AlwaysRewrite(v, seed) ==
    LET v1 == Basename(v)
        v2 == StripDisallowed(v1)
        ext == SplitLast(v2)
        name == SplitFirst(v2)
    IN  name \o <<"-">> \o seed \o <<"-">> \o marker \o <<".">> \o ext

\* the validator with name taken up to the last dot instead of the first
relative_path_validator_NameToLastDot(v, seed) ==
    IF ~Contains(marker, v)
    THEN LET v1 == Basename(v)
             v2 == StripDisallowed(v1)
             ext == SplitLast(v2)
             name == IF Positions(".", v2) = {} THEN v2
                     ELSE SubSeq(v2, 1, Max(Positions(".", v2)) - 1)
         IN  name \o <<"-">> \o seed \o <<"-">> \o marker \o <<".">> \o ext
    ELSE v

\* LFN.relative_path_must_be_alphanumberic_underscores_backslashes
relative_path_validator(v, seed) ==
    IF ~Contains(marker, v)
    THEN LET v1 == Basename(v)
             v2 == StripDisallowed(v1)
             ext == SplitLast(v2)
             name == SplitFirst(v2)
         IN  name \o <<"-">> \o seed \o <<"-">> \o marker \o <<".">> \o ext
    ELSE v

\* ProtocolEnum and KnowledgeSourceEnum: member name by value
ProtocolEnum == [s3 |-> "S3", nas |-> "NAS", local |-> "LOCAL"]
KnowledgeSourceEnum ==
    [telegram |-> "TELEGRAM", twitter |-> "TWITTER", augmented |-> "AUGMENTED",
     sentinel |-> "SENTINEL", user |-> "USER"]

\* the value of a member
EnumValue(enum, member) == CHOOSE v \in DOMAIN enum : enum[v] = member

\* LFN(...) from raw field values: pydantic validates every field and raises
\* ValidationError when one of them fails
LFN(raw, seed) ==
    IF raw.protocol \in DOMAIN ProtocolEnum /\ raw.source \in DOMAIN KnowledgeSourceEnum
    THEN [kind |-> "lfn",
          protocol |-> ProtocolEnum[raw.protocol],
          tracer_id |-> raw.tracer_id,
          job_id |-> raw.job_id,
          source |-> KnowledgeSourceEnum[raw.source],
          relative_path |-> relative_path_validator(raw.relative_path, seed)]
    ELSE Raise("ValidationError")

IsLFN(x) == x.kind = "lfn"

-----------------------------------------------------------------------------
(* JSON: a string is written with `"` and `\` escaped, an int in decimal,   *)
(* an enum member as its value                                              *)

RECURSIVE JsonEscape(_)
JsonEscape(v) ==
    IF Len(v) = 0 THEN <<>>
    ELSE (IF Head(v) \in {"\"", "\\"} THEN <<"\\", Head(v)>> ELSE <<Head(v)>>)
             \o JsonEscape(Tail(v))

RECURSIVE JsonUnescape(_)
JsonUnescape(v) ==
    IF Len(v) = 0 THEN <<>>
    ELSE IF Head(v) = "\\" /\ Len(v) >= 2
         THEN <<v[2]>> \o JsonUnescape(SubSeq(v, 3, Len(v)))
         ELSE <<Head(v)>> \o JsonUnescape(Tail(v))

RECURSIVE NatToDigits(_)
NatToDigits(n) ==
    IF n < 10 THEN <<Digit(n)>> ELSE Append(NatToDigits(n \div 10), Digit(n % 10))

IntToJson(n) == IF n < 0 THEN <<"-">> \o NatToDigits(0 - n) ELSE NatToDigits(n)

DigitValue(c) == CHOOSE d \in 0..9 : Digit(d) = c

RECURSIVE DigitsToNat(_)
DigitsToNat(ds) ==
    IF Len(ds) = 0 THEN 0
    ELSE 10 * DigitsToNat(SubSeq(ds, 1, Len(ds) - 1)) + DigitValue(ds[Len(ds)])

JsonToInt(ds) == IF Head(ds) = "-" THEN 0 - DigitsToNat(Tail(ds)) ELSE DigitsToNat(ds)

\* to_json that writes an enum member by its name instead of its value
LFN_to_json_EnumNames(x) ==
    [protocol |-> x.protocol,
     tracer_id |-> JsonEscape(x.tracer_id),
     job_id |-> IntToJson(x.job_id),
     source |-> x.source,
     relative_path |-> JsonEscape(x.relative_path)]

\* LFN.to_json: model_dump_json()
LFN_to_json(x) ==
    [protocol |-> EnumValue(ProtocolEnum, x.protocol),
     tracer_id |-> JsonEscape(x.tracer_id),
     job_id |-> IntToJson(x.job_id),
     source |-> EnumValue(KnowledgeSourceEnum, x.source),
     relative_path |-> JsonEscape(x.relative_path)]

\* LFN.from_json: model_validate_json() parses the document and validates the
\* fields as the constructor does, the relative_path validator included
LFN_from_json(json, seed) ==
    LFN([protocol |-> json.protocol,
         tracer_id |-> JsonUnescape(json.tracer_id),
         job_id |-> JsonToInt(json.job_id),
         source |-> json.source,
         relative_path |-> JsonUnescape(json.relative_path)], seed)

-----------------------------------------------------------------------------
(* An LFN is constructed, its path validated again, dumped and loaded *)

PathPieces == {<<"s", "d", "a">>, <<"m", "a", "r", "k", "e", "r">>, marker,
               <<".">>, <<"/">>, <<" ">>, <<"\"">>}

RECURSIVE Concatenations(_)
Concatenations(n) ==
    IF n = 0 THEN {<<>>}
    ELSE LET shorter == Concatenations(n - 1)
         IN  shorter \cup {q \o piece : q \in shorter, piece \in PathPieces}

\* "/tmp/reports/final.report.pdf" and "already-x1y2z3-sdamarker.txt"
ScenarioPaths ==
    {<<"/", "t", "m", "p", "/", "r", "e", "p", "o", "r", "t", "s", "/",
       "f", "i", "n", "a", "l", ".", "r", "e", "p", "o", "r", "t", ".", "p", "d", "f">>,
     <<"a", "l", "r", "e", "a", "d", "y", "-", "x", "1", "y", "2", "z", "3", "-">>
         \o marker \o <<".", "t", "x", "t">>}

ProposedPaths == Concatenations(MaxPieces) \cup ScenarioPaths

RawProtocols == {"s3", "local", "ftp"}
RawSources == {"telegram", "user"}
TracerIds == {<<"u", "\"", "1">>}
JobIds == {-1, 42}

InitLFN ==
    /\ store = EmptyStore
    /\ Idle
    /\ first = Untracked
    /\ lfn_pc = "new"
    /\ lfn_in \in {Some([protocol |-> p, tracer_id |-> t, job_id |-> j, source |-> s,
                         relative_path |-> v]) :
                     p \in RawProtocols, t \in TracerIds, j \in JobIds, s \in RawSources,
                     v \in ProposedPaths}
    /\ lfn = None
    /\ lfn_again = None
    /\ lfn_json = None
    /\ lfn_back = None

ConstructLFN ==
    /\ lfn_pc = "new"
    /\ \E seed \in Seeds :
          LET x == LFN(Val(lfn_in), seed)
          IN  /\ lfn' = Some(x)
              /\ lfn_pc' = IF IsLFN(x) THEN "constructed" ELSE "failed"
    /\ UNCHANGED <<repo_vars, lfn_in, lfn_again, lfn_json, lfn_back>>

ValidateAgain ==
    /\ lfn_pc = "constructed"
    /\ \E seed \in Seeds :
          lfn_again' = Some(relative_path_validator(Val(lfn).relative_path, seed))
    /\ lfn_pc' = "validated_again"
    /\ UNCHANGED <<repo_vars, lfn_in, lfn, lfn_json, lfn_back>>

ToJson ==
    /\ lfn_pc = "validated_again"
    /\ lfn_json' = Some(LFN_to_json(Val(lfn)))
    /\ lfn_pc' = "dumped"
    /\ UNCHANGED <<repo_vars, lfn_in, lfn, lfn_again, lfn_back>>

FromJson ==
    /\ lfn_pc = "dumped"
    /\ \E seed \in Seeds : lfn_back' = Some(LFN_from_json(Val(lfn_json), seed))
    /\ lfn_pc' = "loaded"
    /\ UNCHANGED <<repo_vars, lfn_in, lfn, lfn_again, lfn_json>>

NextLFN ==
    \/ ConstructLFN
    \/ ValidateAgain
    \/ ToJson
    \/ FromJson

SpecLFN == InitLFN /\ [][NextLFN]_vars

-----------------------------------------------------------------------------
(* Properties of the LFN *)

Constructed == lfn_pc \in {"constructed", "validated_again", "dumped", "loaded"}

\* C8: every character of the relative path the validator produces is in
\* [a-zA-Z0-9_./-] and the marker "sdamarker" occurs in it exactly once, also
\* for inputs that already contain the marker and for inputs that contain it
\* only once the disallowed characters are removed.
C8_WhitelistAndOneMarker ==
    Constructed =>
        LET v == Val(lfn).relative_path
        IN  /\ \A i \in 1..Len(v) : v[i] \in Whitelist
            /\ Occurrences(marker, v) = 1

\* C9: the validator applied to its own output, with any identifier drawn,
\* returns that output unchanged.
C9_Idempotent ==
    lfn_pc \in {"validated_again", "dumped", "loaded"} =>
        Val(lfn_again) = Val(lfn).relative_path

\* C9 witness: a path without the marker was rewritten by the first
\* application, and the validator has been applied to the rewritten path.
C9_Witness ==
    /\ lfn_pc = "validated_again"
    /\ ~Contains(marker, Val(lfn_in).relative_path)
    /\ Val(lfn).relative_path # Val(lfn_in).relative_path
    /\ Present(lfn_again)

\* C10: for every LFN x that was constructed, LFN.from_json(x.to_json()) equals
\* x field by field.
C10_RoundTrip ==
    lfn_pc = "loaded" =>
        /\ IsLFN(Val(lfn_back))
        /\ Val(lfn_back).protocol = Val(lfn).protocol
        /\ Val(lfn_back).tracer_id = Val(lfn).tracer_id
        /\ Val(lfn_back).job_id = Val(lfn).job_id
        /\ Val(lfn_back).source = Val(lfn).source
        /\ Val(lfn_back).relative_path = Val(lfn).relative_path

\* C10 witness: an LFN whose path was rewritten on construction, and which
\* holds a character JSON escapes, was dumped and loaded again.
C10_Witness ==
    /\ lfn_pc = "loaded"
    /\ ~Contains(marker, Val(lfn_in).relative_path)
    /\ Contains(<<"\"">>, Val(lfn).tracer_id)
    /\ Val(lfn).job_id < 0
    /\ IsLFN(Val(lfn_back))

\* the final path segment of p with the characters outside the whitelist deleted
StrippedSegment(p) == StripDisallowed(Basename(p))

\* C11: for an input p without the marker the canonical path is
\* "{name}-{id}-sdamarker.{ext}": name is the text of the stripped final
\* segment before its first dot, ext the text after its last dot, id 32
\* hexadecimal characters; without a dot name and ext are both the whole
\* stripped segment, and the empty input still yields a marker-bearing path.
C11_CanonicalShape ==
    (Constructed /\ ~Contains(marker, Val(lfn_in).relative_path)) =>
        LET seg == StrippedSegment(Val(lfn_in).relative_path)
            dots == Positions(".", seg)
            name == IF dots = {} THEN seg ELSE SubSeq(seg, 1, Min(dots) - 1)
            ext == IF dots = {} THEN seg ELSE SubSeq(seg, Max(dots) + 1, Len(seg))
            v == Val(lfn).relative_path
            n == Len(name)
        IN  /\ Len(v) = n + 1 + 32 + 1 + Len(marker) + 1 + Len(ext)
            /\ SubSeq(v, 1, n) = name
            /\ v[n + 1] = "-"
            /\ \A i \in (n + 2)..(n + 33) : v[i] \in HexDigits
            /\ SubSeq(v, n + 34, Len(v)) = <<"-">> \o marker \o <<".">> \o ext
            /\ Contains(marker, v)

\* C11 witness: "/tmp/reports/final.report.pdf" was canonicalised to a path
\* that starts with "final-" and ends with "-sdamarker.pdf".
C11_Witness ==
    /\ Constructed
    /\ Val(lfn_in).relative_path \in ScenarioPaths
    /\ ~Contains(marker, Val(lfn_in).relative_path)
    /\ SubSeq(Val(lfn).relative_path, 1, 6) = <<"f", "i", "n", "a", "l", "-">>
    /\ SplitLast(Val(lfn).relative_path) = <<"p", "d", "f">>

-----------------------------------------------------------------------------
(* Properties of repeated calls *)

\* the invocation just made repeats the first one of the behaviour
RepeatsFirst == first.tracking /\ first.seen /\ first.repeated

\* C12: two calls of generate_error_dto_and_message with identical arguments
\* yield the identical outcome (the same errorMessage, errorName and
\* errorType, or both fail), whatever calls were made in between and whatever
\* the implementation answers to the identity test of line 74.
C12_Deterministic ==
    (IsFactoryCall /\ RepeatsFirst) => result = first.result

\* C12 witness: an allow-listed call of kind -2 returned a DTO, a different
\* call followed, and the first call was made again.
C12_Witness ==
    /\ IsFactoryCall
    /\ RepeatsFirst
    /\ first.others
    /\ call.errorCode = -2
    /\ IsDTO(result)

-----------------------------------------------------------------------------
(* Properties of the sessions *)

\* C13: every repository operation uses a session that was acquired for that
\* operation and is not yet released while the operation uses it (so no two
\* operations on one repository object use the same session).
C13_SessionPerOperation ==
    IsRepositoryCall =>
        /\ call.session.acquired_by = call.op
        /\ call.session.state = "open"

\* C14: get_research_context and list_conversations called with
\* research_context_id None return an error Result with errorCode -1
\* (MissingAttribute) without querying the persistence layer.
C14_MissingResearchContextIdNoLookup ==
    (call.op \in {"get_research_context", "list_conversations"} /\ IsNone(call.id)) =>
        /\ IsDTO(result)
        /\ ~result.status
        /\ result.errorCode = Some(-1)
        /\ Len(queries) = 0

\* the message exists and so does the source data of every one of its citations
AllCitedSourcesExist(st, message_id) ==
    /\ Present(message_id)
    /\ Present(Lookup(st, "message_response", message_id))
    /\ LET citations == Val(Lookup(st, "message_response", message_id)).citations
       IN  \A k \in 1..Len(citations) : Present(Lookup(st, "source_data", Some(citations[k])))

\* C15: when the message and the source data of all its citations exist,
\* list_message_sources returns status=true with one SourceData entity per
\* citation, in citation order (the empty list without citations), and does
\* not end in a fault.
C15_AllSourcesListed ==
    (call.op = "list_message_sources" /\ AllCitedSourcesExist(store, call.id)) =>
        LET citations == Val(Lookup(store, "message_response", call.id)).citations
        IN  /\ IsDTO(result)
            /\ result.status
            /\ Present(result.data)
            /\ Len(Val(result.data)) = Len(citations)
            /\ \A k \in 1..Len(citations) :
                  /\ Val(result.data)[k].entity = "SourceData"
                  /\ Val(result.data)[k].id = citations[k]

\* C16: no call of get_research_context, list_conversations or
\* list_message_sources changes a row of the store, and a call repeated
\* against the unchanged store, after any other read operations, returns the
\* same Result.
C16_ReadOnlyAndIdempotent ==
    (first.tracking /\ first.seen) =>
        /\ store = first.store
        /\ (IsRepositoryCall /\ first.repeated) => result = first.result

\* C16 witness: list_message_sources answered an existing message whose
\* citation has no source data, other operations followed, and the same call
\* was made again.
C16_Witness ==
    /\ RepeatsFirst
    /\ first.others
    /\ call.op = "list_message_sources"
    /\ SomeCitedSourceAbsent(store, call.id)
    /\ IsDTO(result)

=============================================================================
